---- MODULE Spec2Model ----
(***************************************************************************)
(* A model of the piece table of src/main.rs: Span, AppendOnlyBuffer and   *)
(* Text (an arena of pieces linked into a circular doubly linked list      *)
(* around a sentinel), with the mutators insert and delete.                *)
(*                                                                         *)
(* Arena indices are the source's: the arena is a function on 0..n-1 and   *)
(* the sentinel is entry 0.  The buffer is a sequence, so byte offset k of *)
(* the source is element k+1 of the sequence.                              *)
(***************************************************************************)
EXTENDS Integers, Sequences, FiniteSets, TLC

\* ---------------------------------------------------------------- bounds
\* Longest byte slice handed to one insert / append call.
MaxIns == 3
\* Largest total number of bytes ever appended to a buffer.
MaxBuf == 3
\* How far past len() an offset argument may lie.
MaxOver == 1
\* Largest offset of a Span in the Span::split specification.
MaxOff == 5
\* Largest number of append calls on the stand-alone buffer.
MaxHeld == 3

\* The callers insert the bytes of this stream (u8 values), in order, in
\* slices of the lengths they choose: no two bytes of a buffer are equal,
\* so a byte at a wrong place always shows.  0 is the NUL byte, 65..68 are
\* ASCII letters, 200 128 (0xC8 0x80) is the UTF-8 encoding of U+0200, and
\* 200, 128 and 255 are not valid UTF-8 on their own.
Stream == <<0, 200, 128, 65, 66, 255, 67, 68>>

\* The k bytes of the stream that follow its first n bytes.
StreamSlice(n, k) == [i \in 1..k |-> Stream[((n + i - 1) % Len(Stream)) + 1]]

\* ------------------------------------------------------------------ Span
\* Span::new's assertion.
SpanNewOk(o1, o2) == o2 >= o1

SpanNew(o1, o2) == [off1 |-> o1, off2 |-> o2]

SpanEmpty == SpanNew(0, 0)

SpanLen(s) == s.off2 - s.off1

SpanIsEmpty(s) == SpanLen(s) = 0

\* split cutting one byte late: the left half has n + 1 bytes.
split_late(s, n) ==
    IF n = 0 \/ n = SpanLen(s)
    THEN [tag |-> "None"]
    ELSE IF ~SpanNewOk(s.off1, s.off1 + n) \/ ~SpanNewOk(s.off1 + n, s.off2)
         THEN [tag |-> "Panic"]
         ELSE [tag   |-> "Some",
               left  |-> SpanNew(s.off1, s.off1 + n + 1),
               right |-> SpanNew(s.off1 + n + 1, s.off2)]

\* Span::split.  "None", "Some" with the two halves, or "Panic" when one of
\* the two Span::new calls fails its assertion (n > len).
split(s, n) ==
    IF n = 0 \/ n = SpanLen(s)
    THEN [tag |-> "None"]
    ELSE IF ~SpanNewOk(s.off1, s.off1 + n) \/ ~SpanNewOk(s.off1 + n, s.off2)
         THEN [tag |-> "Panic"]
         ELSE [tag   |-> "Some",
               left  |-> SpanNew(s.off1, s.off1 + n),
               right |-> SpanNew(s.off1 + n, s.off2)]

\* ------------------------------------------------------ AppendOnlyBuffer
BufferNew == << >>

\* append returning a span that starts at 0 whatever the buffer holds.
append_from_zero(buf, bytes) ==
    [buf  |-> buf \o bytes,
     span |-> SpanNew(0, Len(bytes))]

\* AppendOnlyBuffer::append: the grown buffer and the span returned.
append(buf, bytes) ==
    [buf  |-> buf \o bytes,
     span |-> SpanNew(Len(buf), Len(buf) + Len(bytes))]

\* AppendOnlyBuffer::get: the slice buf[off1 .. off2].
get(buf, s) == SubSeq(buf, s.off1 + 1, s.off2)

\* ------------------------------------------------------------------ Text
SENTINEL == 0

PieceData(span, prev, next) == [span |-> span, prev |-> prev, next |-> next]

\* Vec::len of the arena.
ArenaLen(ps) == Cardinality(DOMAIN ps)

\* Text::new.
TextNew ==
    [buffer |-> BufferNew,
     pieces |-> (0 :> PieceData(SpanEmpty, SENTINEL, SENTINEL)),
     len    |-> 0]

get_piece(ps, p) == ps[p]

\* link as a singly linked list would have it: the prev link is not set.
link_next_only(ps, p1, p2) == [ps EXCEPT ![p1].next = p2]

\* Text::link: two assignments, in this order.
link(ps, p1, p2) == [ps EXCEPT ![p1].next = p2, ![p2].prev = p1]

\* Text::add_piece: push an unlinked entry, return its index.
add_piece(ps, span) ==
    LET n == ArenaLen(ps)
    IN  [pieces |-> ps @@ (n :> PieceData(span, SENTINEL, SENTINEL)),
         piece  |-> n]

\* -------------------------------------------------------- Pieces iterator
\* Text::pieces: the iterator's initial state.
PiecesStart(ps) == [next |-> get_piece(ps, SENTINEL).next, off |-> 0]

PiecesDone(it) == it.next = SENTINEL

\* Pieces::next yielding every piece with the start offset of the first.
PiecesNext_keep_off(ps, it) ==
    [item |-> [start |-> it.off, piece |-> it.next],
     it   |-> [next |-> get_piece(ps, it.next).next, off |-> it.off]]

\* Pieces::next, the Some branch: the item yielded and the advanced iterator.
PiecesNext(ps, it) ==
    [item |-> [start |-> it.off, piece |-> it.next],
     it   |-> [next |-> get_piece(ps, it.next).next,
               off  |-> it.off + SpanLen(get_piece(ps, it.next).span)]]

\* The items the iterator yields, cut after fuel items.  A chain that is a
\* simple cycle through the sentinel has fewer items than the arena has
\* entries, so ArenaLen(ps) items mean the iteration never ends.
RECURSIVE PiecesCollect(_, _, _)
PiecesCollect(ps, it, fuel) ==
    IF PiecesDone(it) \/ fuel = 0
    THEN << >>
    ELSE LET r == PiecesNext(ps, it)
         IN  <<r.item>> \o PiecesCollect(ps, r.it, fuel - 1)

PiecesItems(ps) == PiecesCollect(ps, PiecesStart(ps), ArenaLen(ps))

PiecesDiverge(ps) == Len(PiecesItems(ps)) = ArenaLen(ps)

\* The smallest element of a non-empty set of numbers.
Min(S) == CHOOSE x \in S : \A y \in S : x <= y

\* find_piece with the tie-break the other way round (s >= off): on a
\* boundary it returns the piece that ends there.
find_piece_left(ps, len_, off) ==
    IF off = len_
    THEN [start |-> off, piece |-> SENTINEL, status |-> "ok"]
    ELSE LET items == PiecesItems(ps)
             past  == {i \in 1..Len(items) : items[i].start >= off}
             last  == IF past = {} THEN Len(items) ELSE Min(past) - 1
         IN  IF past = {} /\ PiecesDiverge(ps)
             THEN [start |-> 0, piece |-> SENTINEL, status |-> "hang"]
             ELSE IF last = 0
                  THEN [start |-> 0, piece |-> SENTINEL, status |-> "ok"]
                  ELSE [start  |-> items[last].start,
                        piece  |-> items[last].piece,
                        status |-> "ok"]

\* find_piece without the off == len shortcut: the end of the text is
\* looked up by the scan, which ends on the last piece.
find_piece_scan_only(ps, len_, off) ==
    LET items == PiecesItems(ps)
        past  == {i \in 1..Len(items) : items[i].start > off}
        last  == IF past = {} THEN Len(items) ELSE Min(past) - 1
    IN  IF past = {} /\ PiecesDiverge(ps)
        THEN [start |-> 0, piece |-> SENTINEL, status |-> "hang"]
        ELSE IF last = 0
             THEN [start |-> 0, piece |-> SENTINEL, status |-> "ok"]
             ELSE [start  |-> items[last].start,
                   piece  |-> items[last].piece,
                   status |-> "ok"]

\* find_piece taking every offset from len on for the end of the text
\* (off >= len instead of off == len).
find_piece_clamped(ps, len_, off) ==
    IF off >= len_
    THEN [start |-> off, piece |-> SENTINEL, status |-> "ok"]
    ELSE LET items == PiecesItems(ps)
             past  == {i \in 1..Len(items) : items[i].start > off}
             last  == IF past = {} THEN Len(items) ELSE Min(past) - 1
         IN  IF past = {} /\ PiecesDiverge(ps)
             THEN [start |-> 0, piece |-> SENTINEL, status |-> "hang"]
             ELSE IF last = 0
                  THEN [start |-> 0, piece |-> SENTINEL, status |-> "ok"]
                  ELSE [start  |-> items[last].start,
                        piece  |-> items[last].piece,
                        status |-> "ok"]

\* Text::find_piece.  The for loop returns at the first item whose start
\* is past off, with the item before it (or (0, SENTINEL) when there is
\* none); when no item is past off it returns the last item.  status is
\* "hang" when the loop would never return.
find_piece(ps, len_, off) ==
    IF off = len_
    THEN [start |-> off, piece |-> SENTINEL, status |-> "ok"]
    ELSE LET items == PiecesItems(ps)
             past  == {i \in 1..Len(items) : items[i].start > off}
             last  == IF past = {} THEN Len(items) ELSE Min(past) - 1
         IN  IF past = {} /\ PiecesDiverge(ps)
             THEN [start |-> 0, piece |-> SENTINEL, status |-> "hang"]
             ELSE IF last = 0
                  THEN [start |-> 0, piece |-> SENTINEL, status |-> "ok"]
                  ELSE [start  |-> items[last].start,
                        piece  |-> items[last].piece,
                        status |-> "ok"]

\* One step of a loop of Text::invariant: p = get_piece(p).next / .prev.
Step(ps, p, fwd) == IF fwd THEN get_piece(ps, p).next ELSE get_piece(ps, p).prev

\* The pieces a loop of Text::invariant visits, cut after fuel pieces.
RECURSIVE Chain(_, _, _, _)
Chain(ps, p, fwd, fuel) ==
    IF p = SENTINEL \/ fuel = 0
    THEN << >>
    ELSE <<p>> \o Chain(ps, Step(ps, p, fwd), fwd, fuel - 1)

ChainOf(ps, fwd) == Chain(ps, Step(ps, SENTINEL, fwd), fwd, ArenaLen(ps))

\* The sum of the span lengths of a sequence of pieces.
RECURSIVE SumLens(_, _)
SumLens(ps, c) ==
    IF c = << >> THEN 0
    ELSE SpanLen(get_piece(ps, Head(c)).span) + SumLens(ps, Tail(c))

\* One loop of Text::invariant with the assert_eq! after it: "panic" when
\* an assertion fails, "hang" when the loop never ends, else "ok".
InvariantLoop(ps, len_, fwd) ==
    LET c == ChainOf(ps, fwd)
    IN  IF \E i \in 1..Len(c) : ~(SpanLen(get_piece(ps, c[i]).span) > 0)
        THEN "panic"
        ELSE IF Len(c) = ArenaLen(ps)
             THEN "hang"
             ELSE IF SumLens(ps, c) # len_ THEN "panic" ELSE "ok"

\* Text::invariant: the forward loop, then the backward loop.
invariant(ps, len_) ==
    LET f == InvariantLoop(ps, len_, TRUE)
    IN  IF f # "ok" THEN f ELSE InvariantLoop(ps, len_, FALSE)

\* Text::to_vec: the buffer slices of the pieces the iterator yields.
RECURSIVE ConcatSpans(_, _, _)
ConcatSpans(buf, ps, items) ==
    IF items = << >> THEN << >>
    ELSE get(buf, get_piece(ps, Head(items).piece).span)
         \o ConcatSpans(buf, ps, Tail(items))

to_vec(buf, ps) == ConcatSpans(buf, ps, PiecesItems(ps))

\* ------------------------------------------------------ String::from_utf8
\* A continuation byte 10xxxxxx.
Utf8Cont(b) == 128 <= b /\ b <= 191

\* The bytes of s from index i on are well-formed UTF-8, decided as the
\* standard library's validation loop decides it: by the first byte of
\* each sequence and the ranges allowed for the bytes after it.
RECURSIVE Utf8ValidFrom(_, _)
Utf8ValidFrom(s, i) ==
    IF i > Len(s) THEN TRUE
    ELSE LET b    == s[i]
             has2 == i + 1 <= Len(s)
             has3 == i + 2 <= Len(s)
             has4 == i + 3 <= Len(s)
         IN  IF b < 128 THEN Utf8ValidFrom(s, i + 1)
             ELSE IF 194 <= b /\ b <= 223
             THEN has2 /\ Utf8Cont(s[i + 1]) /\ Utf8ValidFrom(s, i + 2)
             ELSE IF 224 <= b /\ b <= 239
             THEN /\ has3
                  /\ \/ b = 224 /\ 160 <= s[i + 1] /\ s[i + 1] <= 191
                     \/ 225 <= b /\ b <= 236 /\ Utf8Cont(s[i + 1])
                     \/ b = 237 /\ 128 <= s[i + 1] /\ s[i + 1] <= 159
                     \/ 238 <= b /\ b <= 239 /\ Utf8Cont(s[i + 1])
                  /\ Utf8Cont(s[i + 2])
                  /\ Utf8ValidFrom(s, i + 3)
             ELSE IF 240 <= b /\ b <= 244
             THEN /\ has4
                  /\ \/ b = 240 /\ 144 <= s[i + 1] /\ s[i + 1] <= 191
                     \/ 241 <= b /\ b <= 243 /\ Utf8Cont(s[i + 1])
                     \/ b = 244 /\ 128 <= s[i + 1] /\ s[i + 1] <= 143
                  /\ Utf8Cont(s[i + 2])
                  /\ Utf8Cont(s[i + 3])
                  /\ Utf8ValidFrom(s, i + 4)
             ELSE FALSE

\* String::from_utf8: Ok with the bytes as the string, or Err.
from_utf8(v) ==
    IF Utf8ValidFrom(v, 1) THEN [tag |-> "Ok", bytes |-> v] ELSE [tag |-> "Err"]

\* The slice buf[s.off1..s.off2] of AppendOnlyBuffer::get is in range;
\* slicing panics otherwise.
get_in_range(buf, s) == s.off1 <= s.off2 /\ s.off2 <= Len(buf)

\* Text::to_vec returns: its loop over pieces() ends and every get is in
\* range.
to_vec_returns(buf, ps) ==
    /\ ~PiecesDiverge(ps)
    /\ \A i \in 1..Len(PiecesItems(ps)) :
          get_in_range(buf, get_piece(ps, PiecesItems(ps)[i].piece).span)

\* to_utf8_string decoding as a C string: a NUL byte ends the string.
to_utf8_string_c_string(buf, ps) ==
    LET v   == to_vec(buf, ps)
        nul == {i \in 1..Len(v) : v[i] = 0}
    IN  from_utf8(IF nul = {} THEN v ELSE SubSeq(v, 1, Min(nul) - 1))

\* Text::to_utf8_string: the Result of String::from_utf8 on to_vec(), or a
\* panic out of to_vec().
to_utf8_string(buf, ps) ==
    IF to_vec_returns(buf, ps) THEN from_utf8(to_vec(buf, ps)) ELSE [tag |-> "Panic"]

\* --------------------------------------------------------- Bytes iterator
\* AppendOnlyBuffer::get_byte.
get_byte(buf, k) == buf[k + 1]

\* The Bytes value of Text::bytes(): the piece sequence of the text with
\* the cursor at the start of its first piece (no piece for an empty
\* text).
BytesStart(ps) ==
    LET it == PiecesStart(ps)
    IN  IF PiecesDone(it)
        THEN [pieces |-> it, pd |-> [tag |-> "None"], off |-> 0]
        ELSE LET r == PiecesNext(ps, it)
             IN  [pieces |-> r.it,
                  pd     |-> [tag |-> "Some",
                              span |-> get_piece(ps, r.item.piece).span],
                  off    |-> 0]

\* Bytes::next, the branch taken when the cursor has exhausted its piece:
\* off = 0 and pd = pieces.next().
BytesAdvance(ps, st) ==
    IF PiecesDone(st.pieces)
    THEN [pieces |-> st.pieces, pd |-> [tag |-> "None"], off |-> 0]
    ELSE LET r == PiecesNext(ps, st.pieces)
         IN  [pieces |-> r.it,
              pd     |-> [tag |-> "Some",
                          span |-> get_piece(ps, r.item.piece).span],
              off    |-> 0]

\* Bytes::next ending the sequence as soon as a piece is exhausted.
RECURSIVE BytesNext_stop_at_piece_end(_, _, _, _)
BytesNext_stop_at_piece_end(buf, ps, st, fuel) ==
    IF st.pd.tag = "None"
    THEN [tag |-> "None", st |-> st]
    ELSE IF st.off >= SpanLen(st.pd.span)
    THEN [tag |-> "None", st |-> BytesAdvance(ps, st)]
    ELSE [tag  |-> "Some",
          byte |-> get_byte(buf, st.pd.span.off1 + st.off),
          st   |-> [st EXCEPT !.off = @ + 1]]

\* Bytes::next: None, or Some(byte), with the iterator after the call.
\* The call made after advancing to the next piece gives the result; fuel
\* counts these calls, and "Hang" says they never end.
RECURSIVE BytesNext(_, _, _, _)
BytesNext(buf, ps, st, fuel) ==
    IF st.pd.tag = "None"
    THEN [tag |-> "None", st |-> st]
    ELSE IF st.off >= SpanLen(st.pd.span)
    THEN IF fuel = 0
         THEN [tag |-> "Hang", st |-> st]
         ELSE BytesNext(buf, ps, BytesAdvance(ps, st), fuel - 1)
    ELSE [tag  |-> "Some",
          byte |-> get_byte(buf, st.pd.span.off1 + st.off),
          st   |-> [st EXCEPT !.off = @ + 1]]

\* The bytes the iterator yields until it reports the end, at most max of
\* them, and whether it reported the end.
RECURSIVE BytesCollect(_, _, _, _)
BytesCollect(buf, ps, st, max) ==
    LET r == BytesNext(buf, ps, st, ArenaLen(ps))
    IN  IF r.tag = "None" THEN [bytes |-> << >>, ended |-> TRUE]
        ELSE IF r.tag = "Hang" \/ max = 0 THEN [bytes |-> << >>, ended |-> FALSE]
        ELSE LET rest == BytesCollect(buf, ps, r.st, max - 1)
             IN  [bytes |-> <<r.byte>> \o rest.bytes, ended |-> rest.ended]

\* A Text value with the way the call that produced it ended.
TextOf(buf, ps, len_, st) ==
    [buffer |-> buf, pieces |-> ps, len |-> len_, status |-> st]

\* Text::insert's update of len.
InsertLen(len_, bytes) == len_ + Len(bytes)

\* The update of len with off1 forgotten.
DeleteLen_off2_only(len_, off1, off2) == len_ - off2

\* Text::delete's update of len.  It cannot underflow: a call with
\* off2 > len panics before it gets here.
DeleteLen(len_, off1, off2) == len_ - (off2 - off1)

\* Text::insert, the branch that splits the found piece.
InsertSplit(t, bytes, prev, next, sp) ==
    LET a1  == add_piece(t.pieces, sp.left)
        ap  == append(t.buffer, bytes)
        a2  == add_piece(a1.pieces, ap.span)
        a3  == add_piece(a2.pieces, sp.right)
        ps1 == link(a3.pieces, prev, a1.piece)
        ps2 == link(ps1, a1.piece, a2.piece)
        ps3 == link(ps2, a2.piece, a3.piece)
        ps4 == link(ps3, a3.piece, next)
        n   == InsertLen(t.len, bytes)
    IN  TextOf(ap.buf, ps4, n, invariant(ps4, n))

\* The else branch splicing the new piece behind the found piece instead
\* of in front of it.
InsertBefore_behind(t, bytes, piece, prev) ==
    LET ap  == append(t.buffer, bytes)
        a   == add_piece(t.pieces, ap.span)
        nx  == get_piece(t.pieces, piece).next
        ps1 == link(a.pieces, piece, a.piece)
        ps2 == link(ps1, a.piece, nx)
        n   == InsertLen(t.len, bytes)
    IN  TextOf(ap.buf, ps2, n, invariant(ps2, n))

\* Text::insert, the branch that inserts in front of the found piece.
InsertBefore(t, bytes, piece, prev) ==
    LET ap  == append(t.buffer, bytes)
        a   == add_piece(t.pieces, ap.span)
        ps1 == link(a.pieces, a.piece, piece)
        ps2 == link(ps1, prev, a.piece)
        n   == InsertLen(t.len, bytes)
    IN  TextOf(ap.buf, ps2, n, invariant(ps2, n))

\* Text::insert after its early return.
InsertBody(t, off, bytes) ==
    LET f  == find_piece(t.pieces, t.len, off)
        d  == get_piece(t.pieces, f.piece)
        sp == split(d.span, off - f.start)
    IN  IF f.status # "ok"
        THEN [t EXCEPT !.status = f.status]
        ELSE IF sp.tag = "Panic"
        THEN [t EXCEPT !.status = "panic"]
        ELSE IF sp.tag = "Some"
        THEN InsertSplit(t, bytes, d.prev, d.next, sp)
        ELSE IF f.start # off
        THEN [t EXCEPT !.status = "panic"]
        ELSE InsertBefore(t, bytes, f.piece, d.prev)

\* insert without the early return for an empty slice.
insert_no_early_return(t, off, bytes) == InsertBody(t, off, bytes)

\* Text::insert.
insert(t, off, bytes) ==
    IF Len(bytes) = 0 THEN t ELSE InsertBody(t, off, bytes)

\* The left block splicing at the found piece itself when nothing of it
\* is kept, instead of at its predecessor.
DeleteLeft_self(ps, lpiece, lstart, off1, ls) ==
    IF ls.tag = "Some"
    THEN LET l == get_piece(ps, lpiece).prev
             a == add_piece(ps, ls.left)
         IN  [pieces |-> link(a.pieces, l, a.piece), piece |-> a.piece,
              status |-> "ok"]
    ELSE [pieces |-> ps, piece |-> lpiece,
          status |-> IF lstart = off1 THEN "ok" ELSE "panic"]

\* Text::delete, the block that computes `left`: the arena after it and
\* the left splice point; "panic" when its assert_eq! fails.
DeleteLeft(ps, lpiece, lstart, off1, ls) ==
    IF ls.tag = "Some"
    THEN LET l == get_piece(ps, lpiece).prev
             a == add_piece(ps, ls.left)
         IN  [pieces |-> link(a.pieces, l, a.piece), piece |-> a.piece,
              status |-> "ok"]
    ELSE [pieces |-> ps, piece |-> get_piece(ps, lpiece).prev,
          status |-> IF lstart = off1 THEN "ok" ELSE "panic"]

\* The right block keeping the wrong half of the split span.
DeleteRight_left_half(ps, rpiece, rstart, off2, rs) ==
    IF rs.tag = "Some"
    THEN LET r == get_piece(ps, rpiece).next
             a == add_piece(ps, rs.left)
         IN  [pieces |-> link(a.pieces, a.piece, r), piece |-> a.piece,
              status |-> "ok"]
    ELSE [pieces |-> ps, piece |-> rpiece,
          status |-> IF rstart = off2 THEN "ok" ELSE "panic"]

\* The right block shrinking the found piece in place instead of adding
\* a piece for the remainder.
DeleteRight_in_place(ps, rpiece, rstart, off2, rs) ==
    IF rs.tag = "Some"
    THEN [pieces |-> [ps EXCEPT ![rpiece].span = rs.right], piece |-> rpiece,
          status |-> "ok"]
    ELSE [pieces |-> ps, piece |-> rpiece,
          status |-> IF rstart = off2 THEN "ok" ELSE "panic"]

\* Text::delete, the block that computes `right`.
DeleteRight(ps, rpiece, rstart, off2, rs) ==
    IF rs.tag = "Some"
    THEN LET r == get_piece(ps, rpiece).next
             a == add_piece(ps, rs.right)
         IN  [pieces |-> link(a.pieces, a.piece, r), piece |-> a.piece,
              status |-> "ok"]
    ELSE [pieces |-> ps, piece |-> rpiece,
          status |-> IF rstart = off2 THEN "ok" ELSE "panic"]

\* Text::delete after its early return.  Both find_piece calls and both
\* span reads come first; the left block may already have changed the
\* arena when the right split panics.
DeleteBody(t, off1, off2) ==
    LET fl    == find_piece(t.pieces, t.len, off1)
        lspan == get_piece(t.pieces, fl.piece).span
        fr    == find_piece(t.pieces, t.len, off2)
        rspan == get_piece(t.pieces, fr.piece).span
        ls    == split(lspan, off1 - fl.start)
        L     == DeleteLeft(t.pieces, fl.piece, fl.start, off1, ls)
        rs    == split(rspan, off2 - fr.start)
        R     == DeleteRight(L.pieces, fr.piece, fr.start, off2, rs)
        n     == DeleteLen(t.len, off1, off2)
        ps2   == link(R.pieces, L.piece, R.piece)
    IN  IF fl.status # "ok"
        THEN [t EXCEPT !.status = fl.status]
        ELSE IF fr.status # "ok"
        THEN [t EXCEPT !.status = fr.status]
        ELSE IF ls.tag = "Panic" \/ L.status # "ok"
        THEN [t EXCEPT !.status = "panic"]
        ELSE IF rs.tag = "Panic" \/ R.status # "ok"
        THEN [t EXCEPT !.pieces = L.pieces, !.status = "panic"]
        ELSE TextOf(t.buffer, ps2, n, invariant(ps2, n))

\* delete returning early only for an inverted range (off2 < off1).
delete_strict_guard(t, off1, off2) ==
    IF off2 < off1 THEN t ELSE DeleteBody(t, off1, off2)

\* Text::delete.
delete(t, off1, off2) ==
    IF off2 <= off1 THEN t ELSE DeleteBody(t, off1, off2)

\* ----------------------------------------------------------------- state
VARIABLES
    buffer,    \* Text.buffer: the bytes of the AppendOnlyBuffer
    pieces,    \* Text.pieces: the arena, index -> PieceData
    len,       \* Text.len: the cached length
    status,    \* how the last call ended: "ok", "panic" or "hang"
    call,      \* the last call made on the Text and its arguments
    ref,       \* the same edits applied to a plain byte sequence
    insTotal,  \* sum of the lengths of the slices inserted so far
    delTotal,  \* sum of off2 - off1 over the non-empty deletes so far
    out,       \* the value the last call returned ("none" for insert/delete)
    spanIn,    \* Span::split specification: the span split
    splitN,    \* Span::split specification: the argument n
    splitOut,  \* Span::split specification: the value returned
    abuf,      \* buffer specification: a stand-alone AppendOnlyBuffer
    held       \* buffer specification: the spans append returned, with
               \* the bytes that were appended for each

textVars == <<buffer, pieces, len, status, call, ref, insTotal, delTotal, out>>
spanVars == <<spanIn, splitN, splitOut>>
bufVars  == <<abuf, held>>
vars     == <<buffer, pieces, len, status, call, ref, insTotal, delTotal,
              out, spanIn, splitN, splitOut, abuf, held>>

\* The Text value held in the variables.
Self == TextOf(buffer, pieces, len, status)

\* The edits on a plain byte sequence: insert puts bytes before position
\* off, delete removes positions [off1, off2).
RefInsert(s, off, bytes) == SubSeq(s, 1, off) \o bytes \o SubSeq(s, off + 1, Len(s))

RefDelete(s, off1, off2) ==
    IF off2 <= off1 THEN s ELSE SubSeq(s, 1, off1) \o SubSeq(s, off2 + 1, Len(s))

\* Offsets a caller passes: the valid ones and some past the end.
Offsets == 0..(len + MaxOver)

TextInit ==
    /\ buffer = TextNew.buffer
    /\ pieces = TextNew.pieces
    /\ len = TextNew.len
    /\ status = "ok"
    /\ call = [op |-> "new", off1 |-> 0, off2 |-> 0, bytes |-> << >>]
    /\ ref = << >>
    /\ insTotal = 0
    /\ delTotal = 0
    /\ out = [tag |-> "none"]

SpanIdle ==
    /\ spanIn = SpanEmpty
    /\ splitN = 0
    /\ splitOut = [tag |-> "Unset"]

BufIdle ==
    /\ abuf = BufferNew
    /\ held = << >>

Init == TextInit /\ SpanIdle /\ BufIdle

\* A call of Text::insert(off, bytes).  A panic ends the run.
Insert(off, bytes) ==
    /\ status = "ok"
    /\ Len(buffer) + Len(bytes) <= MaxBuf
    /\ LET t == insert(Self, off, bytes)
           valid == off <= len
       IN  /\ buffer' = t.buffer
           /\ pieces' = t.pieces
           /\ len' = t.len
           /\ status' = t.status
           /\ ref' = IF valid THEN RefInsert(ref, off, bytes) ELSE ref
           /\ insTotal' = IF valid THEN insTotal + Len(bytes) ELSE insTotal
    /\ call' = [op |-> "insert", off1 |-> off, off2 |-> off, bytes |-> bytes]
    /\ out' = [tag |-> "none"]
    /\ UNCHANGED <<delTotal, spanIn, splitN, splitOut, abuf, held>>

\* A call of Text::delete(off1, off2).
Delete(off1, off2) ==
    /\ status = "ok"
    /\ LET t == delete(Self, off1, off2)
           valid == off2 <= off1 \/ off2 <= len
       IN  /\ buffer' = t.buffer
           /\ pieces' = t.pieces
           /\ len' = t.len
           /\ status' = t.status
           /\ ref' = IF valid THEN RefDelete(ref, off1, off2) ELSE ref
           /\ delTotal' = IF valid /\ off1 < off2
                          THEN delTotal + (off2 - off1) ELSE delTotal
    /\ call' = [op |-> "delete", off1 |-> off1, off2 |-> off2, bytes |-> << >>]
    /\ out' = [tag |-> "none"]
    /\ UNCHANGED <<insTotal, spanIn, splitN, splitOut, abuf, held>>

\* The calls a caller that keeps the preconditions makes: insert with
\* off <= len, delete with off2 <= off1 (any offsets) or off2 <= len.
ValidInsert(off) == off <= len

ValidDelete(off1, off2) == off2 <= off1 \/ off2 <= len

Next ==
    \/ \E off \in Offsets, k \in 0..MaxIns :
            ValidInsert(off) /\ Insert(off, StreamSlice(Len(buffer), k))
    \/ \E off1 \in Offsets, off2 \in Offsets :
            ValidDelete(off1, off2) /\ Delete(off1, off2)

Spec == Init /\ [][Next]_vars

\* A caller that also breaks the preconditions: insert and delete with any
\* offsets up to MaxOver past len.
InsertAny ==
    \E off \in Offsets, k \in 0..MaxIns : Insert(off, StreamSlice(Len(buffer), k))

DeleteAny ==
    \E off1 \in Offsets, off2 \in Offsets : Delete(off1, off2)

NextMisuse == InsertAny \/ DeleteAny

SpecMisuse == Init /\ [][NextMisuse]_vars

\* ------------------------------------------------- the reading calls
\* What a call that only reads the Text (&self) leaves alone.
ReadOnly ==
    UNCHANGED <<buffer, pieces, len, status, ref, insTotal, delTotal,
                spanIn, splitN, splitOut, abuf, held>>

ReadCall(op, off) == [op |-> op, off1 |-> off, off2 |-> off, bytes |-> << >>]

\* A call of Text::find_piece(off).
FindPiece(off) ==
    /\ status = "ok"
    /\ call' = ReadCall("find_piece", off)
    /\ out' = [tag |-> "find_piece"] @@ find_piece(pieces, len, off)
    /\ ReadOnly

\* Text::pieces() collected to its end.
PiecesCall ==
    /\ status = "ok"
    /\ call' = ReadCall("pieces", 0)
    /\ out' = [tag   |-> "pieces",
               items |-> PiecesItems(pieces),
               ended |-> ~PiecesDiverge(pieces)]
    /\ ReadOnly

\* Text::bytes() collected to its end.
BytesCall ==
    /\ status = "ok"
    /\ call' = ReadCall("bytes", 0)
    /\ out' = [tag |-> "bytes"]
                 @@ BytesCollect(buffer, pieces, BytesStart(pieces), Len(buffer))
    /\ ReadOnly

\* A call of Text::to_utf8_string().
ToUtf8String ==
    /\ status = "ok"
    /\ call' = ReadCall("to_utf8_string", 0)
    /\ out' = to_utf8_string(buffer, pieces)
    /\ status' = IF out'.tag = "Panic" THEN "panic" ELSE "ok"
    /\ UNCHANGED <<buffer, pieces, len, ref, insTotal, delTotal,
                   spanIn, splitN, splitOut, abuf, held>>

NextRead ==
    \/ Next
    \/ \E off \in Offsets : FindPiece(off)
    \/ PiecesCall
    \/ BytesCall
    \/ ToUtf8String

SpecRead == Init /\ [][NextRead]_vars

\* ------------------------------------------- Span::split on its own
\* Every span within 0..MaxOff and every n up to one past the longest.
SpanInit ==
    /\ spanIn \in {SpanNew(o1, o2) : o1 \in 0..MaxOff, o2 \in 0..MaxOff}
    /\ SpanNewOk(spanIn.off1, spanIn.off2)
    /\ splitN \in 0..(MaxOff + 1)
    /\ splitOut = [tag |-> "Unset"]

\* The call spanIn.split(splitN).
Split ==
    /\ splitOut.tag = "Unset"
    /\ splitOut' = split(spanIn, splitN)
    /\ UNCHANGED <<spanIn, splitN, abuf, held,
                   buffer, pieces, len, status, call, ref, insTotal, delTotal,
                   out>>

InitSpan == TextInit /\ BufIdle /\ SpanInit

SpecSpan == InitSpan /\ [][Split]_vars

\* ------------------------------------- AppendOnlyBuffer on its own
\* The byte values appended to the stand-alone buffer.
Byte == {0, 200}

\* All byte slices of length 0..n.
BytesUpTo(n) == UNION {[1..k -> Byte] : k \in 0..n}

\* The call abuf.append(bytes); the caller keeps the span returned.
AppendCall(bytes) ==
    /\ Len(held) < MaxHeld
    /\ Len(abuf) + Len(bytes) <= MaxBuf
    /\ LET r == append(abuf, bytes)
       IN  /\ abuf' = r.buf
           /\ held' = held \o <<[span |-> r.span, bytes |-> bytes]>>
    /\ UNCHANGED <<spanIn, splitN, splitOut,
                   buffer, pieces, len, status, call, ref, insTotal, delTotal,
                   out>>

NextBuffer == \E bytes \in BytesUpTo(MaxIns) : AppendCall(bytes)

SpecBuffer == Init /\ [][NextBuffer]_vars

\* ------------------------------------------------- derived views of a Text
\* The visible pieces, first to last (the forward chain).
Forward == ChainOf(pieces, TRUE)

\* The pieces the backward chain visits, last to first.
Backward == ChainOf(pieces, FALSE)

\* The sequence s reversed.
Reverse(s) == [i \in 1..Len(s) |-> s[Len(s) + 1 - i]]

\* The materialized bytes of the Text in the variables.
Materialized == to_vec(buffer, pieces)

\* ------------------------------------------------------------- claims

\* C1: after any sequence of valid inserts and deletes on a fresh Text,
\* the materialized bytes (to_vec) equal the result of the same edits on
\* a plain byte sequence.
C1_MatchesReference == Materialized = ref

\* A delete strictly inside a text built by inserts has acted, and bytes
\* remain on both sides of the hole.
C1_Witness ==
    /\ call.op = "delete"
    /\ 0 < call.off1 /\ call.off1 < call.off2 /\ call.off2 <= len
    /\ Materialized = ref
    /\ Len(ref) >= 2

\* C2: len() equals the sum of the lengths of the inserted slices minus
\* the sum of off2 - off1 over the non-empty deletes applied so far.
C2_LenIsInsertedMinusDeleted == len = insTotal - delTotal

\* Inserts and a non-empty delete have acted and the text is not empty.
C2_Witness ==
    /\ call.op = "delete"
    /\ delTotal > 0
    /\ insTotal = MaxBuf
    /\ len = insTotal - delTotal
    /\ len > 0

\* C3: in every reachable state every piece of the forward chain has a
\* span of length > 0, the span lengths of the forward chain sum to len
\* and so do those of the backward chain: no assertion of invariant()
\* fails after a valid insert or delete.
C3_InvariantHolds ==
    /\ status = "ok"
    /\ Len(Forward) < ArenaLen(pieces)
    /\ Len(Backward) < ArenaLen(pieces)
    /\ \A i \in 1..Len(Forward) : SpanLen(pieces[Forward[i]].span) > 0
    /\ SumLens(pieces, Forward) = len
    /\ SumLens(pieces, Backward) = len

\* A delete has left at least two visible pieces and pieces off the chain.
C3_Witness ==
    /\ call.op = "delete"
    /\ call.off1 < call.off2
    /\ Len(Forward) >= 2
    /\ ArenaLen(pieces) > Len(Forward) + 1
    /\ SumLens(pieces, Backward) = len

\* C4: for every piece p of the visible chain and for the sentinel,
\* next(prev(p)) = p and prev(next(p)) = p, and the backward chain visits
\* the pieces of the forward chain in reverse order.
C4_LinksSymmetric ==
    /\ \A p \in {SENTINEL} \cup {Forward[i] : i \in 1..Len(Forward)} :
          /\ pieces[pieces[p].prev].next = p
          /\ pieces[pieces[p].next].prev = p
    /\ Backward = Reverse(Forward)

\* An insert has split a piece: three visible pieces, one piece dropped.
C4_Witness ==
    /\ call.op = "insert"
    /\ Len(Forward) = 3
    /\ ArenaLen(pieces) = 5
    /\ Backward = Reverse(Forward)

\* C5: insert(off, bytes) with empty bytes at any offset 0 <= off <= len
\* is a no-op: len, the materialized bytes, every prev/next link, the
\* arena and the buffer are unchanged, and the call returns normally.
C5_EmptyInsertIsNoOp ==
    [][(call'.op = "insert" /\ call'.bytes = << >>) =>
            /\ len' = len
            /\ to_vec(buffer', pieces') = to_vec(buffer, pieces)
            /\ pieces' = pieces
            /\ buffer' = buffer
            /\ status' = "ok"]_vars

\* An empty insert has been made strictly inside a text of several
\* pieces.
C5_Witness ==
    /\ call.op = "insert"
    /\ call.bytes = << >>
    /\ 0 < call.off1 /\ call.off1 < len
    /\ Len(Forward) >= 2

\* C6: delete(off1, off2) with off2 <= off1 is a no-op that raises no
\* error: len, the materialized bytes, every prev/next link, the arena
\* and the buffer are unchanged.
C6_EmptyDeleteIsNoOp ==
    [][(call'.op = "delete" /\ call'.off2 <= call'.off1) =>
            /\ len' = len
            /\ to_vec(buffer', pieces') = to_vec(buffer, pieces)
            /\ pieces' = pieces
            /\ buffer' = buffer
            /\ status' = "ok"]_vars

\* A delete of an empty range strictly inside a piece has been made.
C6_Witness ==
    /\ call.op = "delete"
    /\ call.off2 = call.off1
    /\ status = "ok"
    /\ \E i \in 1..Len(Forward) :
          /\ SumLens(pieces, SubSeq(Forward, 1, i - 1)) < call.off1
          /\ call.off1 < SumLens(pieces, SubSeq(Forward, 1, i))

\* C7: on a fresh Text and on any Text built by valid inserts and
\* deletes, delete(0, len) yields len() = 0, no materialized bytes and a
\* sentinel linked to itself.
C7_DeleteAllEmpties ==
    [][(call'.op = "delete" /\ call'.off1 = 0 /\ call'.off2 = len) =>
            /\ len' = 0
            /\ to_vec(buffer', pieces') = << >>
            /\ pieces'[SENTINEL].next = SENTINEL
            /\ pieces'[SENTINEL].prev = SENTINEL
            /\ status' = "ok"]_vars

\* The whole of a text built by several inserts has been deleted.
C7_Witness ==
    /\ call.op = "delete"
    /\ call.off1 = 0
    /\ call.off2 >= 2
    /\ call.off2 = insTotal - (delTotal - call.off2)
    /\ ArenaLen(pieces) >= 3
    /\ len = 0
    /\ pieces[SENTINEL].next = SENTINEL

\* C10: inserting non-empty bytes at offset len leaves the materialized
\* bytes as a prefix and adds the bytes at the end; the one new piece is
\* spliced between the old last piece and the sentinel.
C10_InsertAtLenAppends ==
    [][(call'.op = "insert" /\ call'.bytes # << >> /\ call'.off1 = len) =>
            LET new == ArenaLen(pieces)
            IN  /\ to_vec(buffer', pieces') = to_vec(buffer, pieces) \o call'.bytes
                /\ ArenaLen(pieces') = new + 1
                /\ pieces'[SENTINEL].prev = new
                /\ pieces'[new].next = SENTINEL
                /\ pieces'[new].prev = pieces[SENTINEL].prev
                /\ pieces'[pieces[SENTINEL].prev].next = new
                /\ get(buffer', pieces'[new].span) = call'.bytes
                /\ status' = "ok"]_vars

\* Bytes have been appended to a text that was not empty.
C10_Witness ==
    /\ call.op = "insert"
    /\ call.bytes # << >>
    /\ call.off1 > 0
    /\ call.off1 + Len(call.bytes) = len
    /\ pieces[SENTINEL].prev = ArenaLen(pieces) - 1
    /\ pieces[SENTINEL].next # pieces[SENTINEL].prev

\* C8: for a span [off1, off2) of length L, split(n) with 0 < n < L
\* returns [off1, off1+n) and [off1+n, off2), whose lengths sum to L and
\* which meet at off1+n; split(0) and split(L) return None.
C8_SplitHalves ==
    splitOut.tag # "Unset" =>
        LET L == spanIn.off2 - spanIn.off1
        IN  /\ (0 < splitN /\ splitN < L) =>
                  /\ splitOut.tag = "Some"
                  /\ splitOut.left = [off1 |-> spanIn.off1,
                                      off2 |-> spanIn.off1 + splitN]
                  /\ splitOut.right = [off1 |-> spanIn.off1 + splitN,
                                       off2 |-> spanIn.off2]
                  /\ (splitOut.left.off2 - splitOut.left.off1)
                       + (splitOut.right.off2 - splitOut.right.off1) = L
                  /\ splitOut.left.off2 = splitOut.right.off1
            /\ (splitN = 0 \/ splitN = L) => splitOut.tag = "None"

\* The span [3, 5) has been split at 1 (both halves non-empty, off1 > 0).
C8_Witness ==
    /\ spanIn = [off1 |-> 3, off2 |-> 5]
    /\ splitN = 1
    /\ splitOut.tag = "Some"

\* C9: append(bytes) returns the span [old_len, old_len + bytes.length),
\* and get(span) of every span append ever returned still gives the bytes
\* appended for it, however many appends followed.
C9_SpansStayValid ==
    /\ \A i \in 1..Len(held) :
          /\ get(abuf, held[i].span) = held[i].bytes
          /\ held[i].span.off1 = (IF i = 1 THEN 0 ELSE held[i - 1].span.off2)
          /\ held[i].span.off2 = held[i].span.off1 + Len(held[i].bytes)
    /\ held # << >> => held[Len(held)].span.off2 = Len(abuf)

\* Three appends have been made, the first and the last of different
\* bytes, and the first span still reads back its bytes.
C9_Witness ==
    /\ Len(held) = 3
    /\ held[1].bytes # << >>
    /\ held[3].bytes # << >>
    /\ held[1].bytes # held[3].bytes
    /\ get(abuf, held[1].span) = held[1].bytes

\* C11: an out-of-range offset is never tolerated: insert(off, bytes)
\* with non-empty bytes and off > len, and delete(off1, off2) with
\* off1 < off2 and off2 > len, end in a panic on every reachable Text,
\* the empty one included.
C11_OutOfRangePanics ==
    [][(\/ call'.op = "insert" /\ call'.bytes # << >> /\ call'.off1 > len
        \/ call'.op = "delete" /\ call'.off1 < call'.off2 /\ call'.off2 > len)
          => status' = "panic"]_vars

\* A delete from the very end of a non-empty text to past its end has
\* panicked.
C11_Witness ==
    /\ status = "panic"
    /\ call.op = "delete"
    /\ call.off1 = len
    /\ call.off2 > len
    /\ len > 0

\* C20: an insert or delete that ends in a precondition failure has
\* changed nothing when it fails: arena, links, buffer and len are as
\* before the call.
C20_FailsBeforeChange ==
    [][status' = "panic" =>
            /\ pieces' = pieces
            /\ buffer' = buffer
            /\ len' = len]_vars

\* The text offset at which the i-th visible piece of arena ps starts.
StartOf(ps, fwd, i) == SumLens(ps, SubSeq(fwd, 1, i - 1))

\* C16: a valid insert of non-empty bytes either adds exactly three
\* pieces left, middle, right, linked prev(piece) -> left -> middle ->
\* right -> next(piece) in place of the piece that holds off strictly
\* inside (which leaves the chain), or adds exactly one piece linked
\* prev(piece) -> new -> piece in front of the piece that starts at off
\* (the sentinel for off = len), no piece leaving the chain; either way
\* exactly the inserted bytes are appended to the buffer.
C16_InsertShapes ==
    [][(call'.op = "insert" /\ call'.bytes # << >> /\ call'.off1 <= len) =>
        LET off == call'.off1
            fwd == ChainOf(pieces, TRUE)
            n   == ArenaLen(pieces)
            in  == {i \in 1..Len(fwd) :
                       /\ StartOf(pieces, fwd, i) < off
                       /\ off < StartOf(pieces, fwd, i + 1)}
            at  == {i \in 1..Len(fwd) : StartOf(pieces, fwd, i) = off}
            mid == [off1 |-> Len(buffer), off2 |-> Len(buffer) + Len(call'.bytes)]
        IN  /\ buffer' = buffer \o call'.bytes
            /\ status' = "ok"
            /\ in # {} =>
                 LET i == CHOOSE i \in in : TRUE
                     p == fwd[i]
                     k == off - StartOf(pieces, fwd, i)
                 IN  /\ ArenaLen(pieces') = n + 3
                     /\ pieces'[n].span = [off1 |-> pieces[p].span.off1,
                                           off2 |-> pieces[p].span.off1 + k]
                     /\ pieces'[n + 1].span = mid
                     /\ pieces'[n + 2].span = [off1 |-> pieces[p].span.off1 + k,
                                               off2 |-> pieces[p].span.off2]
                     /\ pieces'[pieces[p].prev].next = n
                     /\ pieces'[n].prev = pieces[p].prev
                     /\ pieces'[n].next = n + 1
                     /\ pieces'[n + 1].prev = n
                     /\ pieces'[n + 1].next = n + 2
                     /\ pieces'[n + 2].prev = n + 1
                     /\ pieces'[n + 2].next = pieces[p].next
                     /\ pieces'[pieces[p].next].prev = n + 2
                     /\ ChainOf(pieces', TRUE) =
                          SubSeq(fwd, 1, i - 1) \o <<n, n + 1, n + 2>>
                            \o SubSeq(fwd, i + 1, Len(fwd))
            /\ in = {} =>
                 LET i == IF at = {} THEN Len(fwd) + 1 ELSE CHOOSE i \in at : TRUE
                     p == IF at = {} THEN SENTINEL ELSE fwd[i]
                 IN  /\ ArenaLen(pieces') = n + 1
                     /\ pieces'[n].span = mid
                     /\ pieces'[pieces[p].prev].next = n
                     /\ pieces'[n].prev = pieces[p].prev
                     /\ pieces'[n].next = p
                     /\ pieces'[p].prev = n
                     /\ ChainOf(pieces', TRUE) =
                          SubSeq(fwd, 1, i - 1) \o <<n>> \o SubSeq(fwd, i, Len(fwd))
       ]_vars

\* An insert strictly inside the only piece of a text has replaced it by
\* three pieces.
C16_Witness ==
    /\ call.op = "insert"
    /\ call.bytes # << >>
    /\ call.off1 = 1
    /\ ArenaLen(pieces) = 5
    /\ Forward = <<2, 3, 4>>
    /\ pieces[1].span = [off1 |-> 0, off2 |-> 2]

\* C17: no insert or delete step destroys or alters what is allocated:
\* the arena does not shrink, the span of an existing entry does not
\* change, the sentinel keeps index 0 and its empty span, the buffer's
\* bytes stay as a prefix of the buffer, and a delete appends no bytes
\* and at most two arena entries.
C17_NothingDestroyed ==
    [][/\ ArenaLen(pieces') >= ArenaLen(pieces)
       /\ DOMAIN pieces \subseteq DOMAIN pieces'
       /\ \A i \in DOMAIN pieces : pieces'[i].span = pieces[i].span
       /\ pieces'[SENTINEL].span = [off1 |-> 0, off2 |-> 0]
       /\ Len(buffer') >= Len(buffer)
       /\ SubSeq(buffer', 1, Len(buffer)) = buffer
       /\ call'.op = "delete" =>
            /\ buffer' = buffer
            /\ ArenaLen(pieces') <= ArenaLen(pieces) + 2]_vars

\* One delete strictly inside a three-byte piece has added two entries
\* and left the piece's entry as it was.
C17_Witness ==
    /\ call.op = "delete"
    /\ delTotal = 1
    /\ ArenaLen(pieces) = 4
    /\ pieces[1].span = [off1 |-> 0, off2 |-> 3]
    /\ Forward = <<2, 3>>

\* C14: for every reachable Text and every offset with 0 <= off <= len,
\* find_piece(off) returns (len, sentinel) when off = len; otherwise it
\* returns a non-sentinel piece of the forward chain together with the sum
\* of the span lengths of the pieces before it, and start <= off <
\* start + length of the piece, so that an offset on the boundary of two
\* pieces gives the piece that starts there.
C14_FindPieceContract ==
    (out.tag = "find_piece" /\ call.off1 <= len) =>
        /\ out.status = "ok"
        /\ IF call.off1 = len
           THEN out.start = len /\ out.piece = SENTINEL
           ELSE /\ out.piece # SENTINEL
                /\ \E i \in 1..Len(Forward) :
                      /\ Forward[i] = out.piece
                      /\ out.start = StartOf(pieces, Forward, i)
                /\ out.start <= call.off1
                /\ call.off1 < out.start + SpanLen(get_piece(pieces, out.piece).span)

\* find_piece has been called with an offset on the boundary of two pieces.
C14_Witness ==
    /\ out.tag = "find_piece"
    /\ 0 < call.off1 /\ call.off1 < len
    /\ out.start = call.off1
    /\ Len(Forward) >= 2

\* C15: find_piece(off) returns the sentinel if and only if off = len, for
\* every reachable Text, the empty one included, and every offset value,
\* those beyond len included.
C15_SentinelIffAtLen ==
    out.tag = "find_piece" => (out.piece = SENTINEL <=> call.off1 = len)

\* C18: for every reachable Text the piece sequence started at
\* sentinel.next ends: it reaches the sentinel without yielding a piece
\* twice, never yields the sentinel, yields the pieces of the forward
\* chain, yields nothing for an empty Text, and the start offset yielded
\* with a piece is the sum of the span lengths of the pieces yielded
\* before it.
C18_PiecesTerminates ==
    out.tag = "pieces" =>
        LET yielded == [i \in 1..Len(out.items) |-> out.items[i].piece]
        IN  /\ out.ended
            /\ yielded = Forward
            /\ \A i \in 1..Len(yielded) :
                  /\ yielded[i] # SENTINEL
                  /\ \A j \in 1..Len(yielded) : yielded[j] = yielded[i] => j = i
                  /\ out.items[i].start = SumLens(pieces, SubSeq(yielded, 1, i - 1))
            /\ (len = 0 => out.items = << >>)

\* The piece sequence of a Text of three pieces has been collected.
C18_Witness ==
    /\ out.tag = "pieces"
    /\ Len(out.items) >= 3
    /\ out.items[3].start > out.items[2].start

\* The bytes of seg are the UTF-8 encoding of one Unicode scalar value:
\* the shortest encoding of a code point up to U+10FFFF that is not a
\* surrogate (U+D800..U+DFFF).
IsScalarEncoding(seg) ==
    LET tail(i) == seg[i] - 128
        isTail(i) == 128 <= seg[i] /\ seg[i] <= 191
        cp2 == (seg[1] - 192) * 64 + tail(2)
        cp3 == (seg[1] - 224) * 4096 + tail(2) * 64 + tail(3)
        cp4 == (seg[1] - 240) * 262144 + tail(2) * 4096 + tail(3) * 64 + tail(4)
    IN  \/ Len(seg) = 1 /\ seg[1] <= 127
        \/ /\ Len(seg) = 2 /\ 192 <= seg[1] /\ seg[1] <= 223 /\ isTail(2)
           /\ cp2 >= 128
        \/ /\ Len(seg) = 3 /\ 224 <= seg[1] /\ seg[1] <= 239
           /\ isTail(2) /\ isTail(3)
           /\ cp3 >= 2048 /\ ~(55296 <= cp3 /\ cp3 <= 57343)
        \/ /\ Len(seg) = 4 /\ 240 <= seg[1] /\ seg[1] <= 247
           /\ isTail(2) /\ isTail(3) /\ isTail(4)
           /\ cp4 >= 65536 /\ cp4 <= 1114111

\* s is valid UTF-8: it can be cut into encodings of scalar values.
WellFormedUtf8(s) ==
    \E cuts \in SUBSET (0..Len(s)) :
        /\ 0 \in cuts /\ Len(s) \in cuts
        /\ \A a \in cuts : a < Len(s) =>
              IsScalarEncoding(SubSeq(s, a + 1, Min({b \in cuts : b > a})))

\* C12: to_utf8_string never panics and never modifies the Text; it
\* returns an error exactly when the materialized bytes are not valid
\* UTF-8, and otherwise the string whose bytes are the materialized bytes.
C12_Utf8StringResult ==
    [][call'.op = "to_utf8_string" =>
          /\ status' = "ok" /\ out'.tag \in {"Ok", "Err"}
          /\ buffer' = buffer /\ pieces' = pieces /\ len' = len
          /\ (out'.tag = "Err" <=> ~WellFormedUtf8(Materialized))
          /\ (out'.tag = "Ok" => out'.bytes = Materialized)]_vars

\* to_utf8_string has returned an error for a Text that holds the NUL
\* byte in front of a lone 0xC8.
C12_Witness ==
    /\ call.op = "to_utf8_string"
    /\ out.tag = "Err"
    /\ Len(ref) >= 2 /\ ref[1] = 0

\* The Text was built by inserting the single byte 0x00 and then inserting
\* more bytes, with nothing deleted: the first arena entry after the
\* sentinel is the one-byte span of the NUL byte, and later inserts added
\* further entries.
BuiltFromNul ==
    /\ delTotal = 0
    /\ ArenaLen(pieces) >= 3
    /\ get_piece(pieces, 1).span = [off1 |-> 0, off2 |-> 1]
    /\ buffer[1] = 0

\* C13 as stated: for a Text built by inserting the byte 0x00 followed by
\* further inserts, to_vec returns exactly the inserted bytes and
\* to_utf8_string reports a decoding error.
C13_NulAlwaysFailsToDecode ==
    (call.op = "to_utf8_string" /\ BuiltFromNul) =>
        /\ Materialized = ref
        /\ out.tag = "Err"

\* C13 amended: for a Text built by inserting the byte 0x00 followed by
\* further inserts, to_vec returns exactly the inserted bytes, the 0x00
\* byte included and nothing truncated or substituted; to_utf8_string
\* reports a decoding error exactly when these bytes are not valid UTF-8,
\* and otherwise returns the string of all these bytes, the 0x00 included.
C13_NulRoundTrips ==
    (call.op = "to_utf8_string" /\ BuiltFromNul) =>
        /\ Materialized = ref
        /\ Len(Materialized) = insTotal
        /\ \E i \in 1..Len(Materialized) : Materialized[i] = 0
        /\ (out.tag = "Err" <=> ~WellFormedUtf8(ref))
        /\ (out.tag = "Ok" => out.bytes = ref)

\* to_utf8_string has returned a string of three bytes for a Text built
\* from the NUL byte and a later insert.
C13_Witness ==
    /\ call.op = "to_utf8_string"
    /\ BuiltFromNul
    /\ out.tag = "Ok"
    /\ Len(out.bytes) = 3

====
